---- MODULE Spec2Model ----
(***************************************************************************)
(* zmqpp message envelope (src/zmqpp/message.hpp, message.cpp) and the     *)
(* big-endian codec (src/zmqpp/endian.hpp).                                *)
(*                                                                         *)
(* Spec      : life cycle of message objects: composition, stream reading, *)
(*             queue manipulation, copy, move and destruction, together    *)
(*             with the release callbacks of moved buffers.                *)
(* SpecCodec : to_be / from_be applied to words of 2, 4 and 8 bytes.       *)
(* SpecRead  : a reader making passes over one message with operator>>.    *)
(* SpecAccess: access to the parts of one message by index.                *)
(* SpecTyped : one message composed of scalars and signals, in every build.*)
(* SpecSent  : marking the frames of one message as sent.                  *)
(* SpecBorrow: frames over buffers of the caller, without release callback.*)
(* SpecConvert: get, to_be and from_be for types without a specialisation. *)
(* SpecAdd   : add(v1, ..., vn) and the constructor with arguments.        *)
(* SpecCursor: the read cursor under queue operations and reads by index.  *)
(***************************************************************************)
EXTENDS Integers, Sequences, FiniteSets, TLC

VARIABLES
    msgs,      \* message objects: alive flag, _parts, _read_cursor
    ext,       \* caller-allocated buffers handed over with move(), and their releasers
    last,      \* the call made last: operation, operands, exception, value returned
    fault,     \* "none" while the program runs with defined behaviour
    cfg,       \* codec: the build (host byte order, word size, portable or platform)
    word,      \* codec: the value given to to_be
    stream,    \* codec: the bytes to_be wrote
    back,      \* codec: the value from_be returned
    log        \* reader: the values operator>> gave it, pass by pass, when it keeps them

vars == <<msgs, ext, last, fault, cfg, word, stream, back, log>>

msgVars == <<msgs, ext, last, fault>>
codecVars == <<cfg, word, stream, back>>

(***************************************************************************)
(* Bounds                                                                  *)
(***************************************************************************)
MaxFrames == 3      \* frames held by all messages together
MaxCursor == 2      \* largest read cursor explored
MaxCalls == 2       \* invocations of one releaser that are counted
MaxPasses == 2      \* passes a reader makes over one message
MaxTyped == 2       \* frames of a message composed of scalars and signals

MsgIds == {"A", "B"}
\* the object of the runs that follow one message
Readers == {"A"}
BufIds == {1}

\* contents given to add_raw / push_front
Payloads == {<<1>>, <<2>>}
\* strings given to operator<< (0 is the C-string terminator)
Strings == {<<1>>, <<2, 0>>}
\* contents of a frame that was reserved and never written
UninitBytes == {1, 2}
\* the bytes the caller stored in buffer b before handing it to move()
ExtBytes(b) == <<3>>
\* what reading a buffer after its releaser ran yields
Dangling == <<>>

(***************************************************************************)
(* Big-endian codec (endian.hpp)                                           *)
(*                                                                         *)
(* A value of n bytes is the sequence of its bytes by weight: x[i] is the  *)
(* byte of weight 256^(i-1).  A signed value is its two's complement and a *)
(* floating point value its IEEE-754 bit pattern.                          *)
(***************************************************************************)
SampleBytes == {0, 1, 128, 255}

\* 0xdeadbeef10204080 (test_endian.cpp)
TestWord64 == <<128, 64, 32, 16, 239, 190, 173, 222>>

Width(type) ==
    CASE type \in {"uint16_t", "int16_t"} -> 2
      [] type \in {"uint32_t", "int32_t", "float"} -> 4
      [] type \in {"uint64_t", "int64_t", "double"} -> 8

Types == {"uint16_t", "int16_t", "uint32_t", "int32_t", "float", "uint64_t", "int64_t", "double"}

Values(type) ==
    IF Width(type) = 8
    THEN [1..8 -> {1, 128}] \cup {TestWord64, [i \in 1..8 |-> 0], [i \in 1..8 |-> 255]}
    ELSE [1..Width(type) -> SampleBytes]

\* the builds: host byte order, __WORDSIZE, portable or platform conversion, and the
\* order in which the operands of the portable from_be expressions are evaluated
Builds ==
    [big : BOOLEAN, wordsize : {32, 64}, portable : BOOLEAN, order : {"ltr", "rtl"}]

Reverse(s) == [i \in 1..Len(s) |-> s[Len(s) + 1 - i]]

RECURSIVE ByteOr(_, _)
ByteOr(a, b) ==
    IF a = 0 THEN b
    ELSE IF b = 0 THEN a
    ELSE (IF a % 2 = 1 \/ b % 2 = 1 THEN 1 ELSE 0) + 2 * ByteOr(a \div 2, b \div 2)

\* x | y
Or(x, y) == [i \in 1..Len(x) |-> ByteOr(x[i], y[i])]

\* x >> bits and x << bits within the width of x
Shr(x, bits) == [i \in 1..Len(x) |-> IF i + bits \div 8 <= Len(x) THEN x[i + bits \div 8] ELSE 0]

Shl(x, bits) == [i \in 1..Len(x) |-> IF i - bits \div 8 >= 1 THEN x[i - bits \div 8] ELSE 0]

\* (x & 0xFF) stored through a byte iterator
Low8(x) == x[1]

\* static_cast to an unsigned type of n bytes: truncation or zero extension
Cast(x, n) == [i \in 1..n |-> IF i <= Len(x) THEN x[i] ELSE 0]

\* conversion of a signed value to a signed type of n bytes
SignedCast(x, n) ==
    [i \in 1..n |-> IF i <= Len(x) THEN x[i] ELSE IF x[Len(x)] >= 128 THEN 255 ELSE 0]

\* the bytes of x at increasing addresses (the _ba member of the unions)
Mem(c, x) == IF c.big THEN Reverse(x) ELSE x

\* htobe16 / htobe32 / htobe64 and be16toh / be32toh / be64toh
htobe(c, x) == IF c.big THEN x ELSE Reverse(x)

betoh(c, x) == IF c.big THEN x ELSE Reverse(x)

\* to_be_bytestream_converter<_ByteIter, uint16_t, 2>
to_be_uint16(c, x) ==
    IF c.portable
    THEN LET xi == Cast(x, 4)
         IN  <<Low8(Shr(xi, 8)), Low8(xi)>>
    ELSE Mem(c, htobe(c, x))

\* to_be_bytestream_converter<_ByteIter, uint32_t, 4>
to_be_uint32(c, x) ==
    IF c.portable
    THEN <<Low8(Shr(x, 24)), Low8(Shr(x, 16)), Low8(Shr(x, 8)), Low8(x)>>
    ELSE Mem(c, htobe(c, x))

\* a converter that writes the low half before the high half
to_be_uint64_low_first(c, x) ==
    LET lo == Cast(x, 4)
        hi == Cast(Shr(x, 32), 4)
    IN  <<Low8(Shr(lo, 24)), Low8(Shr(lo, 16)), Low8(Shr(lo, 8)), Low8(lo),
          Low8(Shr(hi, 24)), Low8(Shr(hi, 16)), Low8(Shr(hi, 8)), Low8(hi)>>

\* to_be_bytestream_converter<_ByteIter, uint64_t, 8>
to_be_uint64(c, x) ==
    IF c.portable
    THEN LET hi == IF c.wordsize = 64 THEN Shr(x, 32) ELSE Cast(Shr(x, 32), 4)
             lo == IF c.wordsize = 64 THEN x ELSE Cast(Cast(x, 4), 4)
         IN  <<Low8(Shr(hi, 24)), Low8(Shr(hi, 16)), Low8(Shr(hi, 8)), Low8(hi),
               Low8(Shr(lo, 24)), Low8(Shr(lo, 16)), Low8(Shr(lo, 8)), Low8(lo)>>
    ELSE Mem(c, htobe(c, x))

\* to_be: dispatch of to_be_bytestream_converter on the type and its size
to_be(c, type, x) ==
    CASE type = "uint16_t" -> to_be_uint16(c, x)
      [] type = "int16_t" -> to_be_uint16(c, Cast(x, 2))
      [] type = "uint32_t" -> to_be_uint32(c, x)
      [] type = "int32_t" -> to_be_uint32(c, Cast(x, 4))
      [] type = "float" -> to_be_uint32(c, x)
      [] type = "uint64_t" -> to_be_uint64(c, x)
      [] type = "int64_t" -> to_be_uint64(c, Cast(x, 8))
      [] type = "double" -> to_be_uint64(c, x)

\* the byte the k-th *src++ of an expression with n of them reads
Read(c, src, k, n) == src[IF c.order = "ltr" THEN k ELSE n + 1 - k]

\* from_be_bytestream_converter<_ByteIter, uint16_t, 2>
from_be_uint16(c, src) ==
    IF c.portable
    THEN LET b(k) == Cast(<<Read(c, src, k, 2)>>, 4)
         IN  Cast(Or(Shl(b(1), 8), b(2)), 2)
    ELSE betoh(c, Mem(c, SubSeq(src, 1, 2)))

\* from_be_bytestream_converter<_ByteIter, uint32_t, 4>
from_be_uint32(c, src) ==
    IF c.portable
    THEN LET b(k) == Cast(<<Read(c, src, k, 4)>>, 4)
         IN  Or(Or(Or(Shl(b(1), 24), Shl(b(2), 16)), Shl(b(3), 8)), b(4))
    ELSE betoh(c, Mem(c, SubSeq(src, 1, 4)))

\* from_be_bytestream_converter<_ByteIter, uint64_t, 8>
from_be_uint64(c, src) ==
    IF c.portable
    THEN IF c.wordsize = 64
         THEN LET b(k) == Cast(<<Read(c, src, k, 8)>>, 8)
              IN  Or(Or(Or(Or(Shl(Or(Or(Or(Shl(b(1), 24), Shl(b(2), 16)), Shl(b(3), 8)), b(4)), 32),
                              Shl(b(5), 24)), Shl(b(6), 16)), Shl(b(7), 8)), b(8))
         ELSE LET b(k) == Cast(<<Read(c, src, k, 8)>>, 4)
                  hi == Or(Or(Or(Shl(b(1), 24), Shl(b(2), 16)), Shl(b(3), 8)), b(4))
                  lo == Or(Or(Or(Shl(b(5), 24), Shl(b(6), 16)), Shl(b(7), 8)), b(8))
              IN  Or(Shl(Cast(hi, 8), 32), Cast(lo, 8))
    ELSE betoh(c, Mem(c, SubSeq(src, 1, 8)))

\* from_be: dispatch of from_be_bytestream_converter on the type and its size
\* (the int16_t converter returns int32_t, which from_be converts to int16_t)
from_be(c, type, src) ==
    CASE type = "uint16_t" -> from_be_uint16(c, src)
      [] type = "int16_t" -> SignedCast(SignedCast(from_be_uint16(c, src), 4), 2)
      [] type = "uint32_t" -> from_be_uint32(c, src)
      [] type = "int32_t" -> SignedCast(from_be_uint32(c, src), 4)
      [] type = "float" -> from_be_uint32(c, src)
      [] type = "uint64_t" -> from_be_uint64(c, src)
      [] type = "int64_t" -> SignedCast(from_be_uint64(c, src), 8)
      [] type = "double" -> from_be_uint64(c, src)

\* types the converters have no specialisation for, of 1, 2 and 16 bytes
Unconverted == {"uint8_t", "char", "char16_t", "long double"}

sizeof(type) ==
    CASE type \in Types -> Width(type)
      [] type \in {"uint8_t", "char"} -> 1
      [] type = "char16_t" -> 2
      [] type = "long double" -> 16

\* a converter that writes the low byte of a value it has no specialisation for
to_be_bytestream_converter_low_byte(c, type, x) ==
    IF type \in Types
    THEN [err |-> "none", out |-> to_be(c, type, x)]
    ELSE [err |-> "none", out |-> <<Low8(x)>>]

\* details::to_be_bytestream_converter<_ByteIter, T>: the specialisations for the
\* 16-, 32- and 64-bit integers, the partial ones for every other type of 4 or 8
\* bytes, and the primary template, which throws.  out is what was written to dst
to_be_bytestream_converter(c, type, x) ==
    IF type \in Types
    THEN [err |-> "none", out |-> to_be(c, type, x)]
    ELSE [err |-> "exception", out |-> <<>>]

\* details::from_be_bytestream_converter<_ByteIter, T>, likewise
from_be_bytestream_converter(c, type, src) ==
    IF type \in Types
    THEN [err |-> "none", out |-> from_be(c, type, src)]
    ELSE [err |-> "exception", out |-> <<>>]

(***************************************************************************)
(* Frames (frame.hpp: not part of the sources; modelled from the design)   *)
(***************************************************************************)
OwnedFrame(bytes) ==
    [kind |-> "owned", bytes |-> bytes, buf |-> 0, managed |-> FALSE, sent |-> FALSE]

MovedFrame(b, managed) ==
    [kind |-> "moved", bytes |-> <<>>, buf |-> b, managed |-> managed, sent |-> FALSE]

\* a frame over a caller's buffer with no free function: zmq_msg_init_data(.., nullptr, nullptr)
BorrowedFrame(b) ==
    [kind |-> "borrowed", bytes |-> <<>>, buf |-> b, managed |-> FALSE, sent |-> FALSE]

\* frame::is_sent() and frame::mark_sent(): the one-way flag of a frame
is_sent(f) == f.sent

mark_sent(f) == [f EXCEPT !.sent = TRUE]

\* frame::data() / frame::size(): the bytes a frame gives access to
FrameData(e, f) ==
    IF f.kind = "owned" THEN f.bytes
    ELSE IF e[f.buf].st = "released" THEN Dangling ELSE ExtBytes(f.buf)

\* frame::copy(): a new frame owning a duplicate of the content
FrameCopy(e, f) == OwnedFrame(FrameData(e, f))

(***************************************************************************)
(* Release callbacks (message.cpp)                                         *)
(***************************************************************************)
Bump(n) == IF n < MaxCalls THEN n + 1 ELSE n

\* message::release_only_callback: (*hint)(data)
release_only_callback(e, b) ==
    [e EXCEPT ![b].calls = Bump(@), ![b].st = "released",
              ![b].stale = @ \/ e[b].clone = "freed"]

\* a releaser that frees the clone and never invokes it
release_callback_no_call(e, b) == [e EXCEPT ![b].clone = "freed"]

\* a releaser that deletes the clone first and invokes it afterwards
release_callback_delete_first(e, b) ==
    release_only_callback([e EXCEPT ![b].clone = "freed", ![b].stale = @ \/ e[b].clone # "live"], b)

\* message::release_callback: release_only_callback(data, hint); delete hint
release_callback(e, b) ==
    LET e1 == release_only_callback(e, b)
    IN  [e1 EXCEPT ![b].clone = "freed", ![b].stale = @ \/ e1[b].clone # "live"]

\* frame::~frame -> zmq_msg_close: the free function given at construction runs
FrameClose(e, f) ==
    IF f.kind = "moved"
    THEN IF f.managed THEN release_callback(e, f.buf) ELSE release_only_callback(e, f.buf)
    ELSE e

RECURSIVE CloseAll(_, _)
CloseAll(e, fs) ==
    IF fs = <<>> THEN e ELSE CloseAll(FrameClose(e, Head(fs)), Tail(fs))

(***************************************************************************)
(* Message objects                                                         *)
(***************************************************************************)
NoMsg == [alive |-> FALSE, parts |-> <<>>, read_cursor |-> 0]

\* message::message()
EmptyMsg == [alive |-> TRUE, parts |-> <<>>, read_cursor |-> 0]

parts(m) == Len(msgs[m].parts)

\* the record of a call: op(eration), the object m it is made on, its source operand src
\* (m itself when there is none), the Type of a stream operation, the arg(ument)
\* given (content or index), the exception thrown, the value returned
NoCall ==
    [op |-> "none", m |-> "A", src |-> "A", type |-> "", arg |-> <<>>, err |-> "none", out |-> <<>>]

Call(op, m, src, err, out) ==
    [op |-> op, m |-> m, src |-> src, type |-> "", arg |-> <<>>, err |-> err, out |-> out]

\* frames held by all messages together
RECURSIVE SumParts(_)
SumParts(S) ==
    IF S = {} THEN 0
    ELSE LET m == CHOOSE x \in S : TRUE IN Len(msgs[m].parts) + SumParts(S \ {m})

Room(n) == SumParts(MsgIds) + n <= MaxFrames

Running == fault = "none"

\* no buffer handed to move() yet
NoBuffers == [b \in BufIds |-> [st |-> "caller", calls |-> 0, clone |-> "none", stale |-> FALSE]]

\* strlen: the bytes before the first 0
RECURSIVE strlen(_)
strlen(s) == IF s = <<>> \/ Head(s) = 0 THEN 0 ELSE 1 + strlen(Tail(s))

\* codec: no value given to to_be, or returned by from_be, yet
NoWord == [type |-> "", bits |-> <<>>]

\* a reader that keeps nothing, and one that is about to make its first pass
NoLog == [on |-> FALSE, passes |-> <<>>]

FirstPass == [on |-> TRUE, passes |-> <<<<>>>>]

\* the reader got v from operator>>
Logged(l, v) == IF l.on THEN [l EXCEPT !.passes[Len(l.passes)] = Append(@, v)] ELSE l

\* the reader called reset_read_cursor() and starts over
Rewound(l) == IF l.on THEN [l EXCEPT !.passes = Append(@, <<>>)] ELSE l

Init ==
    /\ msgs = [m \in MsgIds |-> NoMsg]
    /\ ext = NoBuffers
    /\ last = NoCall
    /\ fault = "none"
    /\ cfg = [big |-> FALSE, wordsize |-> 64, portable |-> FALSE, order |-> "ltr"]
    /\ word = [type |-> "", bits |-> <<>>]
    /\ stream = <<>>
    /\ back = [type |-> "", bits |-> <<>>]
    /\ log = NoLog

\* message::message()
Construct(m) ==
    /\ Running
    /\ ~msgs[m].alive
    /\ msgs' = [msgs EXCEPT ![m] = EmptyMsg]
    /\ last' = Call("construct", m, m, "none", <<>>)
    /\ UNCHANGED <<ext, fault, codecVars, log>>

\* message::~message(): the deque destroys every frame
Destroy(m) ==
    /\ Running
    /\ msgs[m].alive
    /\ msgs' = [msgs EXCEPT ![m] = NoMsg]
    /\ ext' = CloseAll(ext, msgs[m].parts)
    /\ last' = Call("destroy", m, m, "none", <<>>)
    /\ UNCHANGED <<fault, codecVars, log>>

\* an add_raw that places the frame before the others: emplace_front(content, size)
add_raw_at_front(m, bytes) ==
    /\ Running
    /\ msgs[m].alive
    /\ Room(1)
    /\ msgs' = [msgs EXCEPT ![m].parts = <<OwnedFrame(bytes)>> \o @]
    /\ last' = [Call("add_raw", m, m, "none", <<>>) EXCEPT !.arg = bytes]
    /\ UNCHANGED <<ext, fault, codecVars, log>>

\* message::add_raw (also push_back(void const*, size_t)): emplace_back(content, size)
add_raw(m, bytes) ==
    /\ Running
    /\ msgs[m].alive
    /\ Room(1)
    /\ msgs' = [msgs EXCEPT ![m].parts = Append(@, OwnedFrame(bytes))]
    /\ last' = [Call("add_raw", m, m, "none", <<>>) EXCEPT !.arg = bytes]
    /\ UNCHANGED <<ext, fault, codecVars, log>>

\* operator<< <std::string> -> operator<< <const char*>: add_raw(c_string, strlen(c_string))
insert_string(m, s) ==
    /\ Running
    /\ msgs[m].alive
    /\ Room(1)
    /\ msgs' = [msgs EXCEPT ![m].parts = Append(@, OwnedFrame(SubSeq(s, 1, strlen(s))))]
    /\ last' = [Call("insert", m, m, "none", <<>>) EXCEPT !.type = "string", !.arg = s]
    /\ UNCHANGED <<ext, fault, codecVars, log>>

\* the frame operator<< appends for a scalar: uint8_t goes to add_raw(&byte), int8_t
\* and bool are cast to uint8_t, signal is cast to int64_t, and every other type is
\* written by to_be into a frame of sizeof(_Type) bytes
ScalarFrame(type, v) ==
    CASE type \in {"uint8_t", "int8_t"} -> v
      [] type = "bool" -> <<IF v[1] > 0 THEN 1 ELSE 0>>
      [] type = "signal" -> to_be(cfg, "int64_t", v)
      [] OTHER -> to_be(cfg, type, v)

\* operator<<(message&, _Type) and its scalar specialisations.  char has no
\* converter: raw_new_data(1) appends the frame, then to_be throws
insert(m, type, v) ==
    /\ Running
    /\ msgs[m].alive
    /\ Room(1)
    /\ IF type = "char"
       THEN /\ \E u \in UninitBytes :
                   msgs' = [msgs EXCEPT ![m].parts = Append(@, OwnedFrame(<<u>>))]
            /\ last' = [Call("insert", m, m, "exception", <<>>) EXCEPT !.type = type, !.arg = v]
       ELSE /\ msgs' = [msgs EXCEPT ![m].parts = Append(@, OwnedFrame(ScalarFrame(type, v)))]
            /\ last' = [Call("insert", m, m, "none", <<>>) EXCEPT !.type = type, !.arg = v]
    /\ UNCHANGED <<ext, fault, codecVars, log>>

\* operator<< for a type without a converter (char, a 3-byte struct):
\* raw_new_data(sizeof(_Type)) appends the frame, then to_be throws
insert_unsupported(m, u) ==
    /\ Running
    /\ msgs[m].alive
    /\ Room(1)
    /\ msgs' = [msgs EXCEPT ![m].parts = Append(@, OwnedFrame(<<u>>))]
    /\ last' = [Call("insert", m, m, "exception", <<>>) EXCEPT !.type = "unknown"]
    /\ UNCHANGED <<ext, fault, codecVars, log>>

\* an erase that counts the index from the last frame: _parts.end() - 1 - part
Erase_from_end(fs, part) == SubSeq(fs, 1, Len(fs) - 1 - part) \o SubSeq(fs, Len(fs) - part + 1, Len(fs))

\* the sequence without its element at 0-based index part
Erase(fs, part) == SubSeq(fs, 1, part) \o SubSeq(fs, part + 2, Len(fs))

\* message::size(part): throws outside the range, else the number of bytes of the frame
size(e, msg, part) ==
    IF part >= Len(msg.parts)
    THEN [err |-> "exception", out |-> <<>>]
    ELSE [err |-> "none", out |-> <<Len(FrameData(e, msg.parts[part + 1]))>>]

\* a raw_data that lets the index one past the last frame through (part > _parts.size())
raw_data_past_end(e, msg, part) ==
    IF part > Len(msg.parts)
    THEN [err |-> "exception", out |-> <<>>]
    ELSE [err |-> "none",
          out |-> IF part < Len(msg.parts) THEN FrameData(e, msg.parts[part + 1]) ELSE <<>>]

\* message::raw_data(part): throws outside the range, else the bytes of the frame
raw_data(e, msg, part) ==
    IF part >= Len(msg.parts)
    THEN [err |-> "exception", out |-> <<>>]
    ELSE [err |-> "none", out |-> FrameData(e, msg.parts[part + 1])]

\* message::raw_msg(part): throws outside the range, else the zmq_msg_t of the frame
raw_msg(e, msg, part) ==
    IF part >= Len(msg.parts)
    THEN [err |-> "exception", out |-> <<>>]
    ELSE [err |-> "none", out |-> FrameData(e, msg.parts[part + 1])]

\* message::get<std::string>(part): std::string(raw_data(part), size(part))
GetString(e, msg, part) == raw_data(e, msg, part)

\* message::get<Type>(part), generic, Type not a pointer: throws
GetUnknown(e, msg, part) == [err |-> "exception", out |-> <<>>]

\* the scalar types message::get is specialised for, by their width
\* (int is int32_t, unsigned int uint32_t and, with 64-bit long, long is int64_t)
ByteTypes == {"uint8_t", "int8_t", "char", "bool"}

ScalarTypes == ByteTypes \cup Types \cup {"signal"}

\* sizeof(T)
SizeOf(type) ==
    IF type \in ByteTypes THEN 1 ELSE IF type = "signal" THEN 8 ELSE Width(type)

\* message::get<T>(part) for a scalar T: assert(sizeof(T) == size(part)), then the
\* byte itself (bool: byte > 0) or from_be<T> of the bytes of the frame
GetScalar(type, e, msg, part) ==
    LET s == size(e, msg, part)
        d == raw_data(e, msg, part)
    IN  IF s.err # "none" THEN s
        ELSE IF d.err # "none" THEN d
        ELSE IF s.out # <<SizeOf(type)>> THEN [err |-> "assert", out |-> <<>>]
        ELSE [err |-> "none",
              out |-> CASE type = "bool" -> IF d.out[1] > 0 THEN <<1>> ELSE <<0>>
                        [] type \in ByteTypes \ {"bool"} -> d.out
                        [] type = "signal" -> from_be(cfg, "int64_t", d.out)
                        [] OTHER -> from_be(cfg, type, d.out)]

get(type, e, msg, part) ==
    IF type = "string" THEN GetString(e, msg, part)
    ELSE IF type \in ScalarTypes THEN GetScalar(type, e, msg, part)
    ELSE GetUnknown(e, msg, part)

\* the call has no defined outcome (a deque operation outside its precondition; a
\* scalar get on a frame of another size, which fails the assert or, without it,
\* reads past the frame): nothing is known of the objects any more and the model
\* follows the program no further
Undefined(op, m) ==
    /\ fault' = "undefined"
    /\ last' = Call(op, m, m, "none", <<>>)
    /\ msgs' = [x \in MsgIds |-> NoMsg]
    /\ ext' = NoBuffers
    /\ UNCHANGED <<codecVars, log>>

\* the same for a call given the index part; why is "undefined" (the deque is
\* indexed outside its range) or "aborted" (an assert failed)
Stopped(op, m, part, why) ==
    /\ fault' = why
    /\ last' = [Call(op, m, m, "none", <<>>) EXCEPT !.arg = <<part>>]
    /\ msgs' = [x \in MsgIds |-> NoMsg]
    /\ ext' = NoBuffers
    /\ UNCHANGED <<codecVars, log>>

\* a reader that advances the cursor before it takes the index: get<Type>(++_read_cursor)
extract_preincrement(m, type) ==
    /\ Running
    /\ msgs[m].alive
    /\ msgs[m].read_cursor < MaxCursor
    /\ LET r == get(type, ext, msgs[m], msgs[m].read_cursor + 1)
       IN  /\ last' = [Call("extract", m, m, r.err, r.out) EXCEPT !.type = type]
           /\ log' = Logged(log, r.out)
    /\ msgs' = [msgs EXCEPT ![m].read_cursor = @ + 1]
    /\ UNCHANGED <<ext, fault, codecVars>>

\* a reader that takes the frame it read out of the message
extract_consuming(m, type) ==
    /\ Running
    /\ msgs[m].alive
    /\ msgs[m].read_cursor < MaxCursor
    /\ LET r == get(type, ext, msgs[m], msgs[m].read_cursor)
       IN  /\ last' = [Call("extract", m, m, r.err, r.out) EXCEPT !.type = type]
           /\ log' = Logged(log, r.out)
           /\ msgs' = [msgs EXCEPT ![m].read_cursor = @ + 1,
                                   ![m].parts = IF r.err = "none"
                                                THEN Erase(@, msgs[m].read_cursor) ELSE @]
    /\ UNCHANGED <<ext, fault, codecVars>>

\* operator>>: content = msg.get<Type>(msg._read_cursor++)
extract(m, type) ==
    /\ Running
    /\ msgs[m].alive
    /\ msgs[m].read_cursor < MaxCursor
    /\ LET r == get(type, ext, msgs[m], msgs[m].read_cursor)
       IN  IF r.err = "assert"
           THEN Undefined("extract", m)
           ELSE /\ last' = [Call("extract", m, m, r.err, r.out) EXCEPT !.type = type]
                /\ log' = Logged(log, r.out)
                /\ msgs' = [msgs EXCEPT ![m].read_cursor = @ + 1]
                /\ UNCHANGED <<ext, fault, codecVars>>

\* message::next(): return ++_read_cursor
next(m) ==
    /\ Running
    /\ msgs[m].alive
    /\ msgs[m].read_cursor < MaxCursor
    /\ msgs' = [msgs EXCEPT ![m].read_cursor = @ + 1]
    /\ last' = Call("next", m, m, "none", <<>>)
    /\ UNCHANGED <<ext, fault, codecVars, log>>

\* message::reset_read_cursor()
reset_read_cursor(m) ==
    /\ Running
    /\ msgs[m].alive
    /\ msgs' = [msgs EXCEPT ![m].read_cursor = 0]
    /\ last' = Call("reset_read_cursor", m, m, "none", <<>>)
    /\ log' = Rewound(log)
    /\ UNCHANGED <<ext, fault, codecVars>>

\* a push_front that places the frame behind the others: emplace_back(content, size)
push_front_at_back(m, bytes) ==
    /\ Running
    /\ msgs[m].alive
    /\ Room(1)
    /\ msgs' = [msgs EXCEPT ![m].parts = Append(@, OwnedFrame(bytes))]
    /\ last' = [Call("push_front", m, m, "none", <<>>) EXCEPT !.arg = bytes]
    /\ UNCHANGED <<ext, fault, codecVars, log>>

\* a push_front that moves the cursor up with the frames
push_front_moves_cursor(m, bytes) ==
    /\ Running
    /\ msgs[m].alive
    /\ Room(1)
    /\ msgs' = [msgs EXCEPT ![m].parts = <<OwnedFrame(bytes)>> \o @,
                            ![m].read_cursor = IF @ < MaxCursor THEN @ + 1 ELSE @]
    /\ last' = [Call("push_front", m, m, "none", <<>>) EXCEPT !.arg = bytes]
    /\ UNCHANGED <<ext, fault, codecVars, log>>

\* message::push_front(void const*, size_t): emplace_front(content, size)
push_front(m, bytes) ==
    /\ Running
    /\ msgs[m].alive
    /\ Room(1)
    /\ msgs' = [msgs EXCEPT ![m].parts = <<OwnedFrame(bytes)>> \o @]
    /\ last' = [Call("push_front", m, m, "none", <<>>) EXCEPT !.arg = bytes]
    /\ UNCHANGED <<ext, fault, codecVars, log>>

\* a pop_front that moves the cursor down with the frames
pop_front_moves_cursor(m) ==
    /\ Running
    /\ msgs[m].alive
    /\ IF parts(m) = 0
       THEN Undefined("pop_front", m)
       ELSE /\ msgs' = [msgs EXCEPT ![m].parts = Tail(@),
                                    ![m].read_cursor = IF @ > 0 THEN @ - 1 ELSE @]
            /\ ext' = FrameClose(ext, Head(msgs[m].parts))
            /\ last' = Call("pop_front", m, m, "none", <<>>)
            /\ UNCHANGED <<fault, codecVars, log>>

\* message::pop_front(): _parts.pop_front()
pop_front(m) ==
    /\ Running
    /\ msgs[m].alive
    /\ IF parts(m) = 0
       THEN Undefined("pop_front", m)
       ELSE /\ msgs' = [msgs EXCEPT ![m].parts = Tail(@)]
            /\ ext' = FrameClose(ext, Head(msgs[m].parts))
            /\ last' = Call("pop_front", m, m, "none", <<>>)
            /\ UNCHANGED <<fault, codecVars, log>>

\* a pop_back that takes the first frame: _parts.pop_front()
pop_back_takes_front(m) ==
    /\ Running
    /\ msgs[m].alive
    /\ IF parts(m) = 0
       THEN Undefined("pop_back", m)
       ELSE /\ msgs' = [msgs EXCEPT ![m].parts = Tail(@)]
            /\ ext' = FrameClose(ext, Head(msgs[m].parts))
            /\ last' = Call("pop_back", m, m, "none", <<>>)
            /\ UNCHANGED <<fault, codecVars, log>>

\* message::pop_back(): _parts.pop_back()
pop_back(m) ==
    /\ Running
    /\ msgs[m].alive
    /\ IF parts(m) = 0
       THEN Undefined("pop_back", m)
       ELSE /\ msgs' = [msgs EXCEPT ![m].parts = SubSeq(@, 1, Len(@) - 1)]
            /\ ext' = FrameClose(ext, msgs[m].parts[parts(m)])
            /\ last' = Call("pop_back", m, m, "none", <<>>)
            /\ UNCHANGED <<fault, codecVars, log>>

\* message::remove(part): _parts.erase(_parts.begin() + part)
remove(m, part) ==
    /\ Running
    /\ msgs[m].alive
    /\ IF part >= parts(m)
       THEN Stopped("remove", m, part, "undefined")
       ELSE /\ msgs' = [msgs EXCEPT ![m].parts = Erase(@, part)]
            /\ ext' = FrameClose(ext, msgs[m].parts[part + 1])
            /\ last' = [Call("remove", m, m, "none", <<>>) EXCEPT !.arg = <<part>>]
            /\ UNCHANGED <<fault, codecVars, log>>

\* signal::header, 0x0077665544332211, as an int64_t (signal.hpp: not part of the
\* sources; the design reserves the upper 56 bits of the 8-byte signal frame)
SignalHeader == <<17, 34, 51, 68, 85, 102, 119, 0>>

\* x >> 8 on an int64_t
SignedShr8(x) == [i \in 1..8 |-> IF i < 8 THEN x[i + 1] ELSE IF x[8] >= 128 THEN 255 ELSE 0]

\* message::is_signal(): parts() == 1 && size(0) == sizeof(signal)
\*                        && static_cast<signal>(get<int64_t>(0) >> 8) == signal::header
IsSignal(e, msg) ==
    IF Len(msg.parts) # 1 THEN FALSE
    ELSE IF size(e, msg, 0).out # <<SizeOf("signal")>> THEN FALSE
    ELSE SignedShr8(get("int64_t", e, msg, 0).out) = SignalHeader

\* a call of is_signal()
is_signal(m) ==
    /\ Running
    /\ msgs[m].alive
    /\ last' = Call("is_signal", m, m, "none", <<IF IsSignal(ext, msgs[m]) THEN 1 ELSE 0>>)
    /\ UNCHANGED <<msgs, ext, fault, codecVars, log>>

\* a sent that marks the frame whether it was marked or not: no assert
sent_unchecked(m, part) ==
    /\ Running
    /\ msgs[m].alive
    /\ IF part >= parts(m)
       THEN Stopped("sent", m, part, "undefined")
       ELSE /\ msgs' = [msgs EXCEPT ![m].parts[part + 1] = mark_sent(@)]
            /\ last' = [Call("sent", m, m, "none", <<>>) EXCEPT !.arg = <<part>>]
            /\ UNCHANGED <<ext, fault, codecVars, log>>

\* message::sent(part): assert(!_parts[part].is_sent()); _parts[part].mark_sent().
\* _parts[part] is the unchecked operator[] of the deque.  Where the assert is
\* compiled out, mark_sent() on a marked frame is the fatal condition of the frame
sent(m, part) ==
    /\ Running
    /\ msgs[m].alive
    /\ IF part >= parts(m)
       THEN Stopped("sent", m, part, "undefined")
       ELSE IF is_sent(msgs[m].parts[part + 1])
       THEN Stopped("sent", m, part, "aborted")
       ELSE /\ msgs' = [msgs EXCEPT ![m].parts[part + 1] = mark_sent(@)]
            /\ last' = [Call("sent", m, m, "none", <<>>) EXCEPT !.arg = <<part>>]
            /\ UNCHANGED <<ext, fault, codecVars, log>>

\* the accessors that take the index of a part
Accessors == {"size", "raw_data", "raw_msg", "get"}

Accessor(acc, type, e, msg, part) ==
    CASE acc = "size" -> size(e, msg, part)
      [] acc = "raw_data" -> raw_data(e, msg, part)
      [] acc = "raw_msg" -> raw_msg(e, msg, part)
      [] acc = "get" -> get(type, e, msg, part)

\* a call of size(part), raw_data(part), raw_msg(part) or get<type>(part)
access(m, acc, type, part) ==
    /\ Running
    /\ msgs[m].alive
    /\ LET r == Accessor(acc, type, ext, msgs[m], part)
       IN  IF r.err = "assert"
           THEN Undefined(acc, m)
           ELSE /\ last' = [Call(acc, m, m, r.err, r.out) EXCEPT !.type = type, !.arg = <<part>>]
                /\ UNCHANGED <<msgs, ext, fault, codecVars, log>>

\* message::move(content, size, release, managed_releaser):
\* add_nocopy(content, size, managed ? &release_callback : &release_only_callback,
\*            managed ? new release_function(release) : &release)
move(m, b, managed) ==
    /\ Running
    /\ msgs[m].alive
    /\ Room(1)
    /\ ext[b].st = "caller"
    /\ msgs' = [msgs EXCEPT ![m].parts = Append(@, MovedFrame(b, managed))]
    /\ ext' = [ext EXCEPT ![b].st = "frame",
                          ![b].clone = IF managed THEN "live" ELSE "none"]
    /\ last' = Call("move", m, m, "none", <<>>)
    /\ UNCHANGED <<fault, codecVars, log>>

\* an add_nocopy that registers a free function for the caller's buffer
add_nocopy_with_releaser(m, b) ==
    /\ Running
    /\ msgs[m].alive
    /\ Room(1)
    /\ ext[b].st \in {"caller", "lent"}
    /\ msgs' = [msgs EXCEPT ![m].parts = Append(@, MovedFrame(b, FALSE))]
    /\ ext' = [ext EXCEPT ![b].st = "lent"]
    /\ last' = Call("add_nocopy", m, m, "none", <<>>)
    /\ UNCHANGED <<fault, codecVars, log>>

\* message::add_nocopy(content, size), add_nocopy_const(content, size) and
\* add_const(content, size): _parts.emplace_back(content, data_size, nullptr, nullptr).
\* st = "lent" records that the caller's buffer has been lent to a frame
add_nocopy(m, b) ==
    /\ Running
    /\ msgs[m].alive
    /\ Room(1)
    /\ ext[b].st \in {"caller", "lent"}
    /\ msgs' = [msgs EXCEPT ![m].parts = Append(@, BorrowedFrame(b))]
    /\ ext' = [ext EXCEPT ![b].st = "lent"]
    /\ last' = Call("add_nocopy", m, m, "none", <<>>)
    /\ UNCHANGED <<fault, codecVars, log>>

\* a copy that shares the frames of the source instead of duplicating them
CopiedPartsShallow(e, fs) == fs

\* the frames message::copy(source) leaves in the destination
CopiedParts(e, fs) == [i \in 1..Len(fs) |-> FrameCopy(e, fs[i])]

\* message::copy(source): _read_cursor = source._read_cursor; _parts.resize(source.parts());
\* _parts[ndx] = source._parts[ndx].copy().  The frames the destination held are destroyed.
copy(dst, src) ==
    /\ Running
    /\ msgs[dst].alive /\ msgs[src].alive
    /\ Room(parts(src) - parts(dst))
    /\ msgs' = [msgs EXCEPT ![dst].read_cursor = msgs[src].read_cursor,
                            ![dst].parts = CopiedParts(ext, msgs[src].parts)]
    /\ ext' = CloseAll(ext, msgs[dst].parts)
    /\ last' = Call("copy", dst, src, "none", <<>>)
    /\ UNCHANGED <<fault, codecVars, log>>

\* message::copy() const: message msg; msg.copy(*this); return msg
copy_out(dst, src) ==
    /\ Running
    /\ ~msgs[dst].alive /\ msgs[src].alive
    /\ Room(parts(src))
    /\ msgs' = [msgs EXCEPT ![dst] = [alive |-> TRUE,
                                      parts |-> CopiedParts(ext, msgs[src].parts),
                                      read_cursor |-> msgs[src].read_cursor]]
    /\ last' = Call("copy_out", dst, src, "none", <<>>)
    /\ UNCHANGED <<ext, fault, codecVars, log>>

\* the values an uninitialised _read_cursor can hold
CursorValues == 0..MaxCursor

\* an exchange of _parts that leaves each _read_cursor where it was
swap_parts_only(ms, lhs, rhs) ==
    [ms EXCEPT ![lhs].parts = ms[rhs].parts, ![rhs].parts = ms[lhs].parts]

\* swap(message& lhs, message& rhs): std::swap of _parts and of _read_cursor
swap(ms, lhs, rhs) ==
    [ms EXCEPT ![lhs].parts = ms[rhs].parts, ![lhs].read_cursor = ms[rhs].read_cursor,
               ![rhs].parts = ms[lhs].parts, ![rhs].read_cursor = ms[lhs].read_cursor]

\* message::message(message&& source): swap(*this, source).  There is no member
\* initialiser: _parts starts empty and _read_cursor starts indeterminate
move_construct(dst, src, garbage) ==
    /\ Running
    /\ ~msgs[dst].alive /\ msgs[src].alive
    /\ LET fresh == [alive |-> TRUE, parts |-> <<>>, read_cursor |-> garbage]
       IN  msgs' = swap([msgs EXCEPT ![dst] = fresh], dst, src)
    /\ last' = Call("move_construct", dst, src, "none", <<>>)
    /\ UNCHANGED <<ext, fault, codecVars, log>>

\* message::operator=(message&& rhs): reset_read_cursor(); swap(*this, rhs)
move_assign(dst, src) ==
    /\ Running
    /\ msgs[dst].alive /\ msgs[src].alive
    /\ msgs' = swap([msgs EXCEPT ![dst].read_cursor = 0], dst, src)
    /\ last' = Call("move_assign", dst, src, "none", <<>>)
    /\ UNCHANGED <<ext, fault, codecVars, log>>

Next ==
    \/ \E m \in MsgIds : Construct(m)
    \/ \E m \in MsgIds : Destroy(m)
    \/ \E m \in MsgIds, s \in Payloads : add_raw(m, s)
    \/ \E m \in MsgIds, s \in Strings : insert_string(m, s)
    \/ \E m \in MsgIds, u \in UninitBytes : insert_unsupported(m, u)
    \/ \E m \in MsgIds, t \in {"string", "unknown"} : extract(m, t)
    \/ \E m \in MsgIds : next(m)
    \/ \E m \in MsgIds : reset_read_cursor(m)
    \/ \E m \in MsgIds, s \in Payloads : push_front(m, s)
    \/ \E m \in MsgIds : pop_front(m)
    \/ \E m \in MsgIds : pop_back(m)
    \/ \E m \in MsgIds, i \in 0..MaxFrames : remove(m, i)
    \/ \E m \in MsgIds, b \in BufIds, managed \in BOOLEAN : move(m, b, managed)
    \/ \E d \in MsgIds, s \in MsgIds : copy(d, s)
    \/ \E d \in MsgIds, s \in MsgIds : copy_out(d, s)
    \/ \E d \in MsgIds, s \in MsgIds, g \in CursorValues : move_construct(d, s, g)
    \/ \E d \in MsgIds, s \in MsgIds : move_assign(d, s)

Spec == Init /\ [][Next]_vars

(***************************************************************************)
(* Properties of the message life cycle                                    *)
(***************************************************************************)
\* some frame of a living message still refers to buffer b
Held(b) ==
    \E m \in MsgIds : \E i \in 1..Len(msgs[m].parts) :
        msgs[m].parts[i].kind = "moved" /\ msgs[m].parts[i].buf = b

\* what a caller can observe of a message: cursor and the bytes of every frame
View(e, msg) ==
    [alive |-> msg.alive, read_cursor |-> msg.read_cursor,
     data |-> [i \in 1..Len(msg.parts) |-> FrameData(e, msg.parts[i])]]

\* C1: the releaser given to move() is never invoked twice, and it has been invoked
\* once as soon as no living message holds the moved frame any more, whatever
\* copies, pops, removes, moves and destructions took place.
ReleaseExactlyOnce ==
    Running =>
        \A b \in BufIds :
            /\ ext[b].calls <= 1
            /\ (ext[b].st # "caller" /\ ~Held(b)) => ext[b].calls = 1

ReleasedAfterDestroy ==
    /\ last.op = "destroy"
    /\ ext[1].calls = 1
    /\ \E m \in MsgIds : msgs[m].alive /\ parts(m) > 0

\* C2: after B is move-constructed from A, A has no parts and read cursor 0.
MoveConstructResetsSource ==
    [][last'.op = "move_construct" =>
          /\ Len(msgs'[last'.src].parts) = 0
          /\ msgs'[last'.src].read_cursor = 0]_vars

\* C3: after B = std::move(A), A has no parts and read cursor 0, whatever B held.
MoveAssignResetsSource ==
    [][(last'.op = "move_assign" /\ last'.src # last'.m) =>
          /\ Len(msgs'[last'.src].parts) = 0
          /\ msgs'[last'.src].read_cursor = 0]_vars

\* C4: after a move construction or move assignment between two objects, the
\* destination holds the frames and the read cursor the source held before, and
\* its next stream extraction yields what the source's would have yielded.
MoveTransfersState ==
    [][(last'.op \in {"move_construct", "move_assign"} /\ last'.src # last'.m) =>
          LET d == last'.m
              s == last'.src
          IN  /\ msgs'[d].parts = msgs[s].parts
              /\ msgs'[d].read_cursor = msgs[s].read_cursor
              /\ View(ext', msgs'[d]).data = View(ext, msgs[s]).data
              /\ get("string", ext', msgs'[d], msgs'[d].read_cursor)
                     = get("string", ext, msgs[s], msgs[s].read_cursor)]_vars

MovedMidRead ==
    /\ last.op \in {"move_construct", "move_assign"}
    /\ last.src # last.m
    /\ parts(last.m) = 2
    /\ msgs[last.m].read_cursor = 1

\* C5: the read cursor of a living message never exceeds parts().
CursorWithinParts ==
    \A m \in MsgIds : msgs[m].alive => msgs[m].read_cursor <= parts(m)

\* C6: a stream extraction advances the read cursor by exactly one; with the cursor
\* inside the message it returns the bytes of the frame the cursor pointed at, and
\* with the cursor at or past parts() it throws and returns nothing.
ExtractReadsAtCursor ==
    [][last'.op = "extract" =>
          LET m == last'.m
              c == msgs[m].read_cursor
          IN  /\ msgs'[m].read_cursor = c + 1
              /\ msgs'[m].parts = msgs[m].parts
              /\ c >= parts(m) => (last'.err = "exception" /\ last'.out = <<>>)
              /\ (c < parts(m) /\ last'.type = "string") =>
                     /\ last'.err = "none"
                     /\ last'.out = FrameData(ext, msgs[m].parts[c + 1])]_vars

ExtractedSecondFrame ==
    /\ last.op = "extract"
    /\ last.err = "none"
    /\ msgs[last.m].read_cursor = 2
    /\ parts(last.m) = 2
    /\ last.out = FrameData(ext, msgs[last.m].parts[2])
    /\ last.out # FrameData(ext, msgs[last.m].parts[1])

\* C7: a stream insertion or extraction that throws leaves the message as it was.
FailedStreamOpLeavesMessage ==
    [][(last'.op \in {"insert", "extract"} /\ last'.err = "exception") =>
          msgs'[last'.m] = msgs[last'.m]]_vars

ReadAll(e, msg) == [i \in 1..Len(msg.parts) |-> GetString(e, msg, i - 1).out]

RemoveShiftsDown ==
    [][(last'.op = "remove" /\ Running') =>
          LET m == last'.m
              i == last'.arg[1]
              old == ReadAll(ext, msgs[m])
              new == ReadAll(ext', msgs'[m])
          IN  /\ i < Len(old)
              /\ Len(new) = Len(old) - 1
              /\ \A j \in 0..(Len(new) - 1) :
                     new[j + 1] = IF j < i THEN old[j + 1] ELSE old[j + 2]]_vars

RemovedMiddleOfThree ==
    /\ last.op = "remove"
    /\ Running
    /\ last.arg = <<1>>
    /\ ReadAll(ext, msgs[last.m]) = <<<<1>>, <<3>>>>
    /\ ext[1].calls = 0

\* C16: an append (add_raw / push_back, stream insertion) that returns increases
\* parts() by one and leaves every frame the message held at its index with its
\* bytes; the frame add_raw appends is at the last index and holds the bytes given.
AppendKeepsFrames ==
    [][(last'.op \in {"add_raw", "insert"} /\ last'.err = "none") =>
          LET m == last'.m
              old == ReadAll(ext, msgs[m])
              new == ReadAll(ext', msgs'[m])
          IN  /\ Len(msgs'[m].parts) = parts(m) + 1
              /\ Len(new) = Len(old) + 1
              /\ \A j \in 1..Len(old) : new[j] = old[j]
              /\ last'.op = "add_raw" => new[Len(new)] = last'.arg]_vars

AppendedThird ==
    /\ last.op = "add_raw"
    /\ last.arg = <<1>>
    /\ ReadAll(ext, msgs[last.m]) = <<<<3>>, <<2>>, <<1>>>>

\* C17: on a message of k >= 1 parts, pop_back leaves the frames 0 .. k-2 at their
\* index with their bytes, and pop_front leaves the frames 1 .. k-1, each one index
\* lower, with their bytes and in their order.
PopsTakeTheEnds ==
    [][(last'.op \in {"pop_back", "pop_front"} /\ Running') =>
          LET m == last'.m
              old == ReadAll(ext, msgs[m])
              new == ReadAll(ext', msgs'[m])
              shift == IF last'.op = "pop_front" THEN 1 ELSE 0
          IN  /\ Len(old) >= 1
              /\ Len(new) = Len(old) - 1
              /\ \A j \in 1..Len(new) : new[j] = old[j + shift]]_vars

PoppedFrontOfThree ==
    /\ last.op = "pop_front"
    /\ Running
    /\ ReadAll(ext, msgs[last.m]) = <<<<1>>, <<3>>>>
    /\ ext[1].calls = 0

\* C18: msg << s, s a std::string of any bytes, appends one frame whose size is the
\* length of s and whose bytes are those of s, so that get<std::string> on it is s.
StringInsertedByteForByte ==
    [][(last'.op = "insert" /\ last'.type = "string") =>
          LET m == last'.m
              s == last'.arg
              k == Len(msgs'[m].parts)
          IN  /\ k = parts(m) + 1
              /\ size(ext', msgs'[m], k - 1).out = <<Len(s)>>
              /\ GetString(ext', msgs'[m], k - 1).out = s]_vars

\* C13 as stated: across any single operation other than reset_read_cursor() on
\* it (copy(source), move assignment, push, pop and remove included), the read
\* cursor of a message never decreases.
CursorNeverDecreases ==
    [][\A x \in MsgIds :
          (/\ msgs[x].alive /\ msgs'[x].alive
           /\ ~(last'.op = "reset_read_cursor" /\ last'.m = x))
          => msgs'[x].read_cursor >= msgs[x].read_cursor]_vars

\* C13 amended: the read cursor of a message never decreases across a single
\* operation, except reset_read_cursor() on it, copy(source) into it, and a move
\* construction or move assignment it is the source or the destination of.
CursorDecreasesOnlyWhenReplaced ==
    [][\A x \in MsgIds :
          (/\ msgs[x].alive /\ msgs'[x].alive
           /\ ~(last'.op \in {"reset_read_cursor", "copy"} /\ last'.m = x)
           /\ ~(last'.op \in {"move_construct", "move_assign"} /\ x \in {last'.m, last'.src}))
          => msgs'[x].read_cursor >= msgs[x].read_cursor]_vars

CursorKeptByPop ==
    /\ last.op = "pop_front"
    /\ Running
    /\ msgs[last.m].read_cursor = 2
    /\ parts(last.m) = 1

(***************************************************************************)
(* Access to the parts of one message by index (SpecAccess)                *)
(***************************************************************************)
\* the types get<T>(part) is called with: the frames hold one byte each
AccessTypes == {"string", "uint8_t", "int32_t"}

NextAccess ==
    \/ \E m \in Readers : Construct(m)
    \/ \E m \in Readers, s \in Payloads : add_raw(m, s)
    \/ \E m \in Readers, s \in Strings : insert_string(m, s)
    \/ \E m \in Readers, b \in BufIds, managed \in BOOLEAN : move(m, b, managed)
    \/ \E m \in Readers : pop_back(m)
    \/ \E m \in Readers, acc \in Accessors \ {"get"}, i \in 0..(MaxFrames + 1) :
           access(m, acc, "", i)
    \/ \E m \in Readers, t \in AccessTypes, i \in 0..(MaxFrames + 1) : access(m, "get", t, i)

SpecAccess == Init /\ [][NextAccess]_vars

\* C14: size(index), raw_data(index), raw_msg(index) and get<T>(index) throw when
\* index is not below parts(), on an empty message too, and leave the message as
\* it was; size, raw_data and raw_msg do not throw when index is below parts().
RangeErrorOutsideParts ==
    [][(last'.op \in Accessors /\ Running') =>
          LET m == last'.m
              i == last'.arg[1]
          IN  /\ i >= parts(m) => last'.err = "exception"
              /\ (i < parts(m) /\ last'.op # "get") => last'.err = "none"
              /\ msgs' = msgs
              /\ ext' = ext]_vars

ThrewPastLastPart ==
    /\ last.op = "raw_data"
    /\ last.err = "exception"
    /\ parts(last.m) = 2
    /\ last.arg = <<2>>

(***************************************************************************)
(* A reader making passes over one message with operator>> (SpecRead)      *)
(***************************************************************************)
InitRead ==
    /\ msgs = [m \in MsgIds |-> NoMsg]
    /\ ext = NoBuffers
    /\ last = NoCall
    /\ fault = "none"
    /\ cfg = [big |-> FALSE, wordsize |-> 64, portable |-> FALSE, order |-> "ltr"]
    /\ word = NoWord
    /\ stream = <<>>
    /\ back = NoWord
    /\ log = FirstPass

\* nothing was read yet: the message is still being composed
Composing == log.passes = <<<<>>>>

NextRead ==
    \/ \E m \in Readers : Construct(m)
    \/ \E m \in Readers, s \in Payloads : Composing /\ add_raw(m, s)
    \/ \E m \in Readers, s \in Strings : Composing /\ insert_string(m, s)
    \/ \E m \in Readers, s \in Payloads : Composing /\ push_front(m, s)
    \/ \E m \in Readers, b \in BufIds, managed \in BOOLEAN : Composing /\ move(m, b, managed)
    \/ \E m \in Readers : extract(m, "string")
    \/ \E m \in Readers : Len(log.passes) < MaxPasses /\ reset_read_cursor(m)

SpecRead == InitRead /\ [][NextRead]_vars

\* C12: reset_read_cursor() puts the cursor at 0, and the values a pass of stream
\* extractions yields after it are, one by one, the values the pass before yielded.
RereadReproduces ==
    /\ last.op = "reset_read_cursor" => msgs[last.m].read_cursor = 0
    /\ \A i \in 2..Len(log.passes) :
           \A k \in 1..Len(log.passes[i]) :
               k <= Len(log.passes[i - 1]) => log.passes[i][k] = log.passes[i - 1][k]

ConsumedTwice ==
    /\ parts("A") = 2
    /\ msgs["A"].read_cursor = 2
    /\ log.passes = <<<<(<<2>>), (<<3>>)>>, <<(<<2>>), (<<3>>)>>>>

(***************************************************************************)
(* to_be / from_be on one word (SpecCodec)                                 *)
(***************************************************************************)
InitCodec ==
    /\ msgs = [m \in MsgIds |-> NoMsg]
    /\ ext = NoBuffers
    /\ last = NoCall
    /\ fault = "none"
    /\ cfg \in Builds
    /\ word = NoWord
    /\ stream = <<>>
    /\ back = NoWord
    /\ log = NoLog

\* to_be(x, dst)
Encode(type, x) ==
    /\ word.type = ""
    /\ word' = [type |-> type, bits |-> x]
    /\ stream' = to_be(cfg, type, x)
    /\ back' = NoWord
    /\ UNCHANGED <<cfg, msgVars, log>>

\* from_be<type>(src) on the bytes to_be wrote
Decode ==
    /\ word.type # ""
    /\ back.type = ""
    /\ back' = [type |-> word.type, bits |-> from_be(cfg, word.type, stream)]
    /\ UNCHANGED <<cfg, word, stream, msgVars, log>>

NextCodec ==
    \/ \E type \in Types : \E x \in Values(type) : Encode(type, x)
    \/ Decode

SpecCodec == InitCodec /\ [][NextCodec]_vars

\* C9: to_be followed by from_be<T> returns the value to_be was given.
RoundTrip == back.type # "" => back.bits = word.bits

\* C10: to_be writes sizeof(value) bytes, most significant first: byte i of the
\* output (from 0) is the byte of weight 256^(n-1-i) of the value.
BigEndianOutput ==
    word.type # "" =>
        LET n == Width(word.type)
        IN  /\ Len(stream) = n
            /\ \A i \in 0..(n - 1) : stream[i + 1] = word.bits[n - i]

EncodedTestWord ==
    /\ word = [type |-> "uint64_t", bits |-> TestWord64]
    /\ stream = <<222, 173, 190, 239, 16, 32, 64, 128>>
    /\ cfg.portable

(***************************************************************************)
(* One message composed of scalars and signals, in every build (SpecTyped) *)
(***************************************************************************)
\* signal::test and signal::stop: the header in the upper 56 bits, the code below
SignalTest == <<1, 17, 34, 51, 68, 85, 102, 119>>

SignalStop == <<2, 17, 34, 51, 68, 85, 102, 119>>

\* the values given to operator<<
ScalarInputs(type) ==
    CASE type = "bool" -> {<<0>>, <<1>>}
      [] type \in {"uint8_t", "int8_t"} -> {<<255>>}
      [] type = "char" -> {<<65>>}
      [] type = "signal" -> {SignalTest, SignalStop}
      [] Width(type) = 2 -> {<<2, 1>>}
      [] Width(type) = 4 -> {<<154, 2, 0, 0>>}
      [] Width(type) = 8 -> {TestWord64}

\* contents of 8 bytes given to add_raw: the header followed by a byte that is no
\* signal code, and the same bytes in the opposite order
RawWords == {<<119, 102, 85, 68, 51, 34, 17, 204>>, <<204, 17, 34, 51, 68, 85, 102, 119>>}

NextTyped ==
    \/ \E m \in Readers : Construct(m)
    \/ \E m \in Readers, t \in ScalarTypes : \E v \in ScalarInputs(t) :
           parts(m) < MaxTyped /\ insert(m, t, v)
    \/ \E m \in Readers, s \in RawWords : parts(m) < MaxTyped /\ add_raw(m, s)
    \/ \E m \in Readers : pop_back(m)
    \/ \E m \in Readers, t \in ScalarTypes, i \in 0..(MaxTyped - 1) : access(m, "get", t, i)
    \/ \E m \in Readers : is_signal(m)

SpecTyped == InitCodec /\ [][NextTyped]_vars

\* C19: for every scalar type T that get<T> is specialised for and every value v,
\* msg << v appends one frame of sizeof(T) bytes and get<T> on that frame returns v.
ScalarInsertedReadsBack ==
    [][(last'.op = "insert" /\ last'.type \in ScalarTypes \ {"signal"}) =>
          LET m == last'.m
              k == Len(msgs'[m].parts)
          IN  /\ last'.err = "none"
              /\ k = parts(m) + 1
              /\ size(ext', msgs'[m], k - 1).out = <<SizeOf(last'.type)>>
              /\ get(last'.type, ext', msgs'[m], k - 1) = [err |-> "none", out |-> last'.arg]]_vars

\* the frame a signal is sent as: 8 bytes, the header in the first seven (the upper
\* 56 bits of the big-endian integer), any byte last
HeaderFrame(f) == Len(f) = 8 /\ SubSeq(f, 1, 7) = <<119, 102, 85, 68, 51, 34, 17>>

\* C20: is_signal() is true if and only if the message has exactly one part, of 8
\* bytes, whose upper 56 bits read as a big-endian integer are the header, whatever
\* its low byte; a message of no part, or of two or more, is never a signal.
SignalIffHeaderFrame ==
    last.op = "is_signal" =>
        ((last.out = <<1>>) <=>
            /\ parts(last.m) = 1
            /\ HeaderFrame(FrameData(ext, msgs[last.m].parts[1])))

\* C21: msg << sig on an empty message, for every signal code, leaves one frame of
\* 8 bytes that is_signal() takes for a signal and from which get<signal>(0) returns
\* the code; a single frame of 8 bytes that do not start with the header is not
\* taken for a signal.
SignalInsertedIsSignal ==
    [][/\ (last'.op = "insert" /\ last'.type = "signal" /\ parts(last'.m) = 0) =>
             LET after == msgs'[last'.m]
             IN  /\ Len(after.parts) = 1
                 /\ size(ext', after, 0).out = <<8>>
                 /\ IsSignal(ext', after)
                 /\ get("signal", ext', after, 0) = [err |-> "none", out |-> last'.arg]
       /\ \A m \in Readers :
             (/\ Len(msgs'[m].parts) = 1
              /\ Len(FrameData(ext', msgs'[m].parts[1])) = 8
              /\ ~HeaderFrame(FrameData(ext', msgs'[m].parts[1])))
             => ~IsSignal(ext', msgs'[m])]_vars

(***************************************************************************)
(* Marking the frames of one message as sent (SpecSent)                    *)
(***************************************************************************)
NextSent ==
    \/ \E m \in Readers : Construct(m)
    \/ \E m \in Readers, s \in Payloads : add_raw(m, s)
    \/ \E m \in Readers : pop_back(m)
    \/ \E m \in Readers, i \in 0..MaxFrames : remove(m, i)
    \/ \E m \in Readers, i \in 0..MaxFrames : sent(m, i)

SpecSent == Init /\ [][NextSent]_vars

\* the index, after the step, of the frame that was at index j (from 1) before it
After(j) ==
    IF last'.op = "remove" /\ j > last'.arg[1] + 1 THEN j - 1 ELSE j

\* the frame at index j before the step is still in the message after it
Stays(m, j) ==
    /\ After(j) <= Len(msgs'[m].parts)
    /\ ~(last'.op = "remove" /\ j = last'.arg[1] + 1)

\* C22: the sent flag of a frame is one-way: a frame that is marked stays marked
\* as long as it is in the message; sent(index) marks the frame at index and no
\* other; and sent(index) on a frame that is marked already stops the program
\* (a failed assert) instead of marking it again.
SentIsOneWay ==
    [][\A m \in Readers :
          /\ Running' =>
                \A j \in 1..Len(msgs[m].parts) :
                    (Stays(m, j) /\ is_sent(msgs[m].parts[j]))
                    => is_sent(msgs'[m].parts[After(j)])
          /\ (last'.op = "sent" /\ Running') =>
                LET i == last'.arg[1] + 1
                IN  /\ ~is_sent(msgs[m].parts[i])
                    /\ msgs'[m].parts = [msgs[m].parts EXCEPT ![i].sent = TRUE]
          /\ (/\ last'.op = "sent"
              /\ last'.arg[1] < parts(m)
              /\ is_sent(msgs[m].parts[last'.arg[1] + 1]))
             => fault' = "aborted"]_vars

SentSecondOfTwo ==
    /\ last.op = "sent"
    /\ Running
    /\ last.arg = <<1>>
    /\ parts("A") = 2
    /\ is_sent(msgs["A"].parts[1])
    /\ is_sent(msgs["A"].parts[2])

(***************************************************************************)
(* The clone of a managed releaser (Spec)                                  *)
(***************************************************************************)
\* C23: move(ptr, size, release_fn, managed = true) puts a clone of the releaser on
\* the heap: the clone is live while the frame holds the buffer, it is invoked once,
\* it is freed right after that invocation, never before it and never twice.  With
\* managed = false there is no clone and the caller's own releaser is invoked.
CloneInvokedOnceThenFreed ==
    Running =>
        /\ \A b \in BufIds :
              /\ ~ext[b].stale
              /\ ext[b].clone = "live" => (ext[b].calls = 0 /\ ext[b].st = "frame")
              /\ ext[b].clone = "freed" => (ext[b].calls = 1 /\ ext[b].st = "released")
              /\ ext[b].st = "released" => ext[b].calls = 1
        /\ \A m \in MsgIds : \A i \in 1..Len(msgs[m].parts) :
              LET f == msgs[m].parts[i]
              IN  f.kind = "moved" => (f.managed <=> ext[f.buf].clone # "none")

CloneFreedByPop ==
    /\ Running
    /\ last.op \in {"pop_back", "pop_front", "remove"}
    /\ \E b \in BufIds : ext[b].clone = "freed" /\ ext[b].calls = 1 /\ ~ext[b].stale

UnmanagedReleasedWithoutClone ==
    /\ Running
    /\ \E b \in BufIds : ext[b].clone = "none" /\ ext[b].st = "released" /\ ext[b].calls = 1

(***************************************************************************)
(* Frames over buffers of the caller (SpecBorrow)                          *)
(***************************************************************************)
NextBorrow ==
    \/ \E m \in MsgIds : Construct(m)
    \/ \E m \in MsgIds : Destroy(m)
    \/ \E m \in MsgIds, b \in BufIds : add_nocopy(m, b)
    \/ \E m \in MsgIds, b \in BufIds : add_raw(m, ExtBytes(b))
    \/ \E m \in MsgIds : pop_front(m)
    \/ \E m \in MsgIds : pop_back(m)
    \/ \E m \in MsgIds, i \in 0..MaxFrames - 1 : remove(m, i)
    \/ \E d \in MsgIds, s \in MsgIds : copy(d, s)
    \/ \E d \in MsgIds, s \in MsgIds : move_assign(d, s)

SpecBorrow == Init /\ [][NextBorrow]_vars

\* a frame over the buffer b of the caller is in some message
Lent(b) ==
    \E m \in MsgIds : \E i \in 1..Len(msgs[m].parts) :
        msgs[m].parts[i].kind # "owned" /\ msgs[m].parts[i].buf = b

\* C25: a buffer lent to a frame without a release callback (add_nocopy,
\* add_nocopy_const, add_const) is never freed and no releaser runs on it, so while
\* frames are over it and after every message is destroyed it holds the caller's
\* bytes, and every frame over it reads those bytes; add_raw copies its source and
\* leaves the buffer it copied from as it was.
BorrowedBufferIntact ==
    [][Running' =>
          /\ \A b \in BufIds :
                /\ ext'[b].st \in {"caller", "lent"}
                /\ ext'[b].calls = 0
                /\ \A m \in MsgIds : \A i \in 1..Len(msgs'[m].parts) :
                      LET f == msgs'[m].parts[i]
                      IN  (f.kind = "borrowed" /\ f.buf = b) => FrameData(ext', f) = ExtBytes(b)
          /\ last'.op = "add_raw" =>
                /\ ext' = ext
                /\ msgs'[last'.m].parts[Len(msgs'[last'.m].parts)] = OwnedFrame(last'.arg)]_vars

BorrowedBufferOutlivesMessages ==
    /\ Running
    /\ last.op = "destroy"
    /\ \A m \in MsgIds : ~msgs[m].alive
    /\ \E b \in BufIds : ext[b].st = "lent" /\ ext[b].calls = 0 /\ ~Lent(b)

(***************************************************************************)
(* Conversions of types without a specialisation (SpecConvert)             *)
(***************************************************************************)
\* values and byte streams of the width of a type
ConvertValues(type) ==
    {[i \in 1..sizeof(type) |-> i], [i \in 1..sizeof(type) |-> 255]}

\* to_be(x, dst)
to_be_call(type, x) ==
    /\ Running
    /\ LET r == to_be_bytestream_converter(cfg, type, x)
       IN  last' = [Call("to_be", "A", "A", r.err, r.out) EXCEPT !.type = type, !.arg = x]
    /\ UNCHANGED <<msgs, ext, fault, codecVars, log>>

\* from_be<type>(src)
from_be_call(type, src) ==
    /\ Running
    /\ LET r == from_be_bytestream_converter(cfg, type, src)
       IN  last' = [Call("from_be", "A", "A", r.err, r.out) EXCEPT !.type = type, !.arg = src]
    /\ UNCHANGED <<msgs, ext, fault, codecVars, log>>

NextConvert ==
    \/ \E m \in Readers : Construct(m)
    \/ \E m \in Readers, s \in Payloads : add_raw(m, s)
    \/ \E m \in Readers, t \in {"string", "uint8_t", "unknown"}, i \in 0..MaxFrames :
          access(m, "get", t, i)
    \/ \E t \in Types \cup Unconverted : \E x \in ConvertValues(t) : to_be_call(t, x)
    \/ \E t \in Types \cup Unconverted : \E src \in ConvertValues(t) : from_be_call(t, src)

SpecConvert == InitCodec /\ [][NextConvert]_vars

\* C26: get<T>(index) for a T that is neither a pointer nor a type get is
\* specialised for throws and returns nothing, whatever the index; to_be and from_be
\* for a type that is not 2, 4 or 8 bytes wide throw, to_be having written nothing
\* to dst and from_be returning no value.
UnsupportedConversionThrows ==
    [][/\ (last'.op = "get" /\ last'.type \notin ScalarTypes \cup {"string"}) =>
             /\ last'.err = "exception"
             /\ last'.out = <<>>
             /\ msgs' = msgs
       /\ (last'.op \in {"to_be", "from_be"} /\ sizeof(last'.type) \notin {2, 4, 8}) =>
             /\ last'.err = "exception"
             /\ last'.out = <<>>
             /\ msgs' = msgs]_vars

ThrewForLongDouble ==
    /\ last.op = "to_be"
    /\ last.type = "long double"
    /\ last.err = "exception"
    /\ parts("A") = 1

(***************************************************************************)
(* add(v1, ..., vn) and the constructor with arguments (SpecAdd)           *)
(***************************************************************************)
MaxArgs == 2        \* arguments of one call of add or of the constructor

\* arguments of add: a string, a string with an embedded NUL, and scalars
Args ==
    {[type |-> "string", v |-> <<1>>], [type |-> "string", v |-> <<2, 0>>],
     [type |-> "uint8_t", v |-> <<7>>], [type |-> "int32_t", v |-> <<1, 2, 3, 4>>],
     [type |-> "char", v |-> <<9>>]}

ArgLists == UNION {[1..n -> Args] : n \in 1..MaxArgs}

\* the content of the frame *this << content appends
InsertedFrame(a) ==
    IF a.type = "string" THEN SubSeq(a.v, 1, strlen(a.v)) ELSE ScalarFrame(a.type, a.v)

\* add(content, args...): *this << content; add(args...).  The operator<< of a char
\* appends a frame of one unwritten byte u and throws, which ends the call
RECURSIVE AddParts(_, _, _)
AddParts(fs, args, u) ==
    IF args = <<>> THEN [parts |-> fs, err |-> "none"]
    ELSE IF Head(args).type = "char"
    THEN [parts |-> Append(fs, OwnedFrame(<<u>>)), err |-> "exception"]
    ELSE AddParts(Append(fs, OwnedFrame(InsertedFrame(Head(args)))), Tail(args), u)

\* message::add(content, args...)
add(m, args, u) ==
    /\ Running
    /\ msgs[m].alive
    /\ Room(Len(args))
    /\ LET r == AddParts(msgs[m].parts, args, u)
       IN  /\ msgs' = [msgs EXCEPT ![m].parts = r.parts]
           /\ last' = [Call("add", m, m, r.err, <<>>) EXCEPT !.arg = args]
    /\ UNCHANGED <<ext, fault, codecVars, log>>

\* message::message(content, args...) : message() { add(content, args...); }
\* an exception leaving the body destroys the object the delegated constructor made
construct_with(m, args, u) ==
    /\ Running
    /\ ~msgs[m].alive
    /\ Room(Len(args))
    /\ LET r == AddParts(<<>>, args, u)
       IN  /\ msgs' = [msgs EXCEPT ![m] = IF r.err = "none"
                                          THEN [EmptyMsg EXCEPT !.parts = r.parts]
                                          ELSE NoMsg]
           /\ last' = [Call("construct", m, m, r.err, <<>>) EXCEPT !.arg = args]
    /\ UNCHANGED <<ext, fault, codecVars, log>>

NextAdd ==
    \/ \E m \in Readers : Destroy(m)
    \/ \E m \in Readers : Construct(m)
    \/ \E m \in Readers, args \in ArgLists, u \in UninitBytes : construct_with(m, args, u)
    \/ \E m \in Readers, args \in ArgLists, u \in UninitBytes : add(m, args, u)
    \/ \E m \in Readers : pop_back(m)

SpecAdd == Init /\ [][NextAdd]_vars

\* C27: add(v1, ..., vn) appends n frames behind the frames the message had, the
\* frame of vi at index parts_before + i - 1, and the constructor with arguments
\* leaves what add leaves on an empty message.
AddAppendsOnePerArgument ==
    [][(last'.op \in {"add", "construct"} /\ last'.arg # <<>>) =>
          LET args == last'.arg
              before == IF last'.op = "add" THEN msgs[last'.m].parts ELSE <<>>
              after == msgs'[last'.m].parts
          IN  /\ msgs'[last'.m].alive
              /\ Len(after) = Len(before) + Len(args)
              /\ SubSeq(after, 1, Len(before)) = before
              /\ \A i \in 1..Len(args) :
                    Len(before) + i <= Len(after) =>
                        FrameData(ext', after[Len(before) + i])
                            = IF args[i].type = "char" THEN args[i].v
                              ELSE InsertedFrame(args[i])]_vars

(***************************************************************************)
(* remove and sent outside the range of the frames (SpecSent)              *)
(***************************************************************************)
\* C28: remove(index) and sent(index) with index >= parts() throw a range error to
\* the caller and leave the frames and the read cursor of the message as they were.
RemoveAndSentRangeError ==
    [][(/\ last'.op \in {"remove", "sent"}
        /\ last'.arg # <<>>
        /\ last'.arg[1] >= parts(last'.m)) =>
          /\ fault' = "none"
          /\ last'.err = "exception"
          /\ msgs' = msgs]_vars

(***************************************************************************)
(* Portable and platform conversions side by side (SpecCodec)              *)
(***************************************************************************)
\* the build that differs from c in the choice of conversion only
OtherPath(c) == [c EXCEPT !.portable = ~c.portable]

\* C29: the shift-and-mask conversions and the byte-swap conversions agree: to_be
\* writes the same bytes on both, and from_be returns the same value for the same
\* bytes on both, in whichever order the operands of the portable from_be
\* expressions are evaluated.
PortableEqualsPlatform ==
    /\ word.type # "" => stream = to_be(OtherPath(cfg), word.type, word.bits)
    /\ back.type # "" => back.bits = from_be(OtherPath(cfg), back.type, stream)

(***************************************************************************)
(* The read cursor under the queue operations and the reads by index       *)
(* (SpecCursor)                                                            *)
(***************************************************************************)
\* message::extract<0>(std::string&, ...) with n arguments: for part = 0 .. n-1,
\* assert(part < parts()); next_content = get<std::string>(part).  Past the last
\* frame the assert stops the program or, compiled out, get throws
extract_parts(m, n) ==
    /\ Running
    /\ msgs[m].alive
    /\ IF n > parts(m)
       THEN \/ Stopped("extract_parts", m, n, "aborted")
            \/ /\ last' = [Call("extract_parts", m, m, "exception", <<>>) EXCEPT !.arg = <<n>>]
               /\ UNCHANGED <<msgs, ext, fault, codecVars, log>>
       ELSE /\ last' = [Call("extract_parts", m, m, "none",
                              [i \in 1..n |-> GetString(ext, msgs[m], i - 1).out])
                            EXCEPT !.arg = <<n>>]
            /\ UNCHANGED <<msgs, ext, fault, codecVars, log>>

NextCursor ==
    \/ \E m \in Readers : Construct(m)
    \/ \E m \in Readers, s \in Payloads : add_raw(m, s)
    \/ \E m \in Readers, s \in Payloads : push_front(m, s)
    \/ \E m \in Readers : pop_front(m)
    \/ \E m \in Readers : pop_back(m)
    \/ \E m \in Readers, i \in 0..MaxFrames - 1 : remove(m, i)
    \/ \E m \in Readers : extract(m, "string")
    \/ \E m \in Readers, i \in 0..MaxFrames - 1 : access(m, "get", "string", i)
    \/ \E m \in Readers, n \in 1..MaxFrames : extract_parts(m, n)

SpecCursor == Init /\ [][NextCursor]_vars

\* C30: push_front, push_back, pop_front, pop_back, remove, get<T>(index) and
\* extract(...) leave the read cursor as it was; so after k extractions a push_front
\* leaves the cursor at k, where the frame that was at index k - 1 now is, and the
\* next operator>> reads that frame.
QueueOpsKeepCursor ==
    [][Running' =>
          LET m == last'.m
              k == msgs[m].read_cursor
          IN  /\ last'.op \in {"push_front", "add_raw", "pop_front", "pop_back", "remove",
                                "get", "extract_parts"}
                 => msgs'[m].read_cursor = k
              /\ (last'.op = "push_front" /\ k \in 1..parts(m)) =>
                    /\ get("string", ext', msgs'[m], k) = get("string", ext, msgs[m], k - 1)
                    /\ get("string", ext', msgs'[m], k).err = "none"
              /\ (last'.op = "extract" /\ last.op = "push_front" /\ last.m = m) =>
                    /\ [err |-> last'.err, out |-> last'.out] = get("string", ext, msgs[m], k)
                    /\ msgs'[m].parts = msgs[m].parts]_vars

ReadAfterPushFront ==
    /\ Running
    /\ last.op = "push_front"
    /\ msgs["A"].read_cursor = 1
    /\ parts("A") = 3
    /\ FrameData(ext, msgs["A"].parts[2]) # FrameData(ext, msgs["A"].parts[1])
    /\ FrameData(ext, msgs["A"].parts[2]) # FrameData(ext, msgs["A"].parts[3])
====
